---- MODULE Spec2Model ----
(***************************************************************************)
(* node9-proxy: the policy engine (evaluatePolicy and its helpers), the    *)
(* two authorization entry points (authorizeAction, authorizeHeadless) and *)
(* the proxy's child-output handler (runProxy).                            *)
(*                                                                         *)
(* Text is kept as TLA+ strings and taken apart character by character     *)
(* (SubSeq(s, i, i)), so tokenization, glob matching and the shell         *)
(* analysis are computed the way the code computes them.                   *)
(***************************************************************************)
EXTENDS Integers, Sequences, FiniteSets, TLC

(***************************************************************************)
(* Strings                                                                 *)
(***************************************************************************)
Char(s, i) == SubSeq(s, i, i)

UpperChars == "ABCDEFGHIJKLMNOPQRSTUVWXYZ"
LowerChars == "abcdefghijklmnopqrstuvwxyz"

\* the lower-case letter of every upper-case letter
LowerOf ==
    [c \in {Char(UpperChars, i) : i \in 1..Len(UpperChars)} |->
        Char(LowerChars, CHOOSE i \in 1..Len(UpperChars) : Char(UpperChars, i) = c)]

\* String.prototype.toLowerCase on one character
LowerChar(c) == IF c \in DOMAIN LowerOf THEN LowerOf[c] ELSE c

RECURSIVE ToLower(_)
ToLower(s) ==
    IF s = "" THEN ""
    ELSE LowerChar(Char(s, 1)) \o ToLower(SubSeq(s, 2, Len(s)))

StartsWith(s, p) == Len(s) >= Len(p) /\ SubSeq(s, 1, Len(p)) = p

Includes(s, c) == \E i \in 1..Len(s) : Char(s, i) = c

\* s.includes(sub) for a text sub
IncludesText(s, sub) ==
    \E i \in 1..(Len(s) - Len(sub) + 1) : SubSeq(s, i, i + Len(sub) - 1) = sub

SeqIncludes(q, x) == \E i \in 1..Len(q) : q[i] = x

\* Array.prototype.filter(s => s.length > 0)
RECURSIVE NonEmpty(_)
NonEmpty(q) ==
    IF q = <<>> THEN <<>>
    ELSE IF Head(q) = "" THEN NonEmpty(Tail(q))
    ELSE <<Head(q)>> \o NonEmpty(Tail(q))

\* String.prototype.split on a character class: every separator character ends
\* one piece (empty pieces are kept, as split keeps them)
RECURSIVE SplitFrom(_, _, _, _)
SplitFrom(s, seps, i, cur) ==
    IF i > Len(s) THEN <<cur>>
    ELSE IF Char(s, i) \in seps
         THEN <<cur>> \o SplitFrom(s, seps, i + 1, "")
         ELSE SplitFrom(s, seps, i + 1, cur \o Char(s, i))

SplitChars(s, seps) == SplitFrom(s, seps, 1, "")

\* s.replace(/^-+/, '')
RECURSIVE StripDashes(_)
StripDashes(s) ==
    IF StartsWith(s, "-") THEN StripDashes(SubSeq(s, 2, Len(s))) ELSE s

\* s.replace(/^\.\//, '')
StripDotSlash(s) == IF StartsWith(s, "./") THEN SubSeq(s, 3, Len(s)) ELSE s

(***************************************************************************)
(* picomatch(patterns, {nocase: true, dot: true}), for patterns made of    *)
(* literal characters, '*' inside a path segment and '**' as a whole       *)
(* segment.                                                                *)
(***************************************************************************)
DotSegs == {".", ".."}

\* one path segment against one pattern segment; '*' is any run of characters
RECURSIVE WildMatch(_, _)
WildMatch(t, p) ==
    IF p = "" THEN t = ""
    ELSE IF Char(p, 1) = "*"
         THEN \/ WildMatch(t, SubSeq(p, 2, Len(p)))
              \/ t # "" /\ WildMatch(SubSeq(t, 2, Len(t)), p)
         ELSE /\ t # ""
              /\ Char(t, 1) = Char(p, 1)
              /\ WildMatch(SubSeq(t, 2, Len(t)), SubSeq(p, 2, Len(p)))

\* a segment that starts with a wildcard needs a character to match and never
\* matches '.' or '..'
SegMatch(t, p) ==
    /\ StartsWith(p, "*") => (t # "" /\ t \notin DotSegs)
    /\ WildMatch(t, p)

RECURSIVE SegsMatch(_, _)
SegsMatch(ts, ps) ==
    IF ps = <<>> THEN ts = <<>>
    ELSE IF Head(ps) = "**"
         THEN \/ SegsMatch(ts, Tail(ps))
              \/ /\ ts # <<>>
                 /\ Head(ts) \notin DotSegs
                 /\ SegsMatch(Tail(ts), ps)
         ELSE /\ ts # <<>>
              /\ SegMatch(Head(ts), Head(ps))
              /\ SegsMatch(Tail(ts), Tail(ps))

\* isMatch(input) of one pattern: case is ignored, a leading './' of the
\* pattern is dropped, the empty input matches nothing
GlobMatch(input, pattern) ==
    /\ input # ""
    /\ SegsMatch(SplitChars(ToLower(input), {"/"}),
                 SplitChars(ToLower(StripDotSlash(pattern)), {"/"}))

IsMatch(input, patterns) == \E i \in 1..Len(patterns) : GlobMatch(input, patterns[i])

(***************************************************************************)
(* core.ts: tool-name tokenization and pattern matching                    *)
(***************************************************************************)
NameSeparators == {"_", ".", "-", " ", "\t", "\n", "\r", "\f"}

\* toolName.toLowerCase().split(/[_.\-\s]+/).filter(Boolean)
tokenize(toolName) == NonEmpty(SplitChars(ToLower(toolName), NameSeparators))

\* a bug the tokenizer was written to avoid: the word anywhere in the name
containsDangerousWord_substring(toolName, dangerousWords) ==
    \E w \in 1..Len(dangerousWords) :
        \E i \in 1..Len(toolName) : \E j \in i..Len(toolName) :
            ToLower(SubSeq(toolName, i, j)) = ToLower(dangerousWords[w])

containsDangerousWord(toolName, dangerousWords) ==
    \E w \in 1..Len(dangerousWords) :
        SeqIncludes(tokenize(toolName), ToLower(dangerousWords[w]))

\* matchesPattern(text, patterns) with patterns an array
matchesPattern(text, patterns) ==
    IF Len(patterns) = 0 THEN FALSE
    ELSE IF IsMatch(ToLower(text), patterns) THEN TRUE
    ELSE LET withoutDotSlash == StripDotSlash(text)
         IN  IsMatch(withoutDotSlash, patterns) \/ IsMatch("./" \o withoutDotSlash, patterns)

(***************************************************************************)
(* Tool arguments: JSON values, tagged by their JavaScript type            *)
(***************************************************************************)
JStr(s) == [t |-> "string", v |-> s]
JNum == [t |-> "number"]
JNull == [t |-> "null"]
JUndefined == [t |-> "undefined"]
JObj(fields) == [t |-> "object", f |-> fields]
NoFields == [k \in {} |-> JNull]

\* prev?.[curr]
Member(prev, curr) ==
    IF prev.t = "object" /\ curr \in DOMAIN prev.f THEN prev.f[curr] ELSE JUndefined

RECURSIVE ReducePath(_, _)
ReducePath(prev, keys) ==
    IF keys = <<>> THEN prev ELSE ReducePath(Member(prev, Head(keys)), Tail(keys))

getNestedValue(obj, path) ==
    IF obj.t # "object" THEN JNull
    ELSE ReducePath(obj, SplitChars(path, {"."}))

\* the first toolInspection key (in the object's key order) that matches the
\* tool name selects the field; anything but a string there is null
extractShellCommand(toolName, args, toolInspection) ==
    LET hits == {i \in 1..Len(toolInspection) :
                    matchesPattern(toolName, <<toolInspection[i].pattern>>)}
    IN  IF hits = {} THEN JNull
        ELSE LET first == CHOOSE i \in hits : \A j \in hits : i <= j
                 value == getNestedValue(args, toolInspection[first].field)
             IN  IF value.t = "string" THEN value ELSE JNull

(***************************************************************************)
(* core.ts: analyzeShellCommand                                            *)
(***************************************************************************)
ShellOperators == {";", "|", "&"}
Whitespace == {" "}

\* sh-syntax parse(command), read the way the AST walk reads it: the
\* CallExpr nodes from left to right, each the list of its words' literal
\* values.  A double-quoted part carries no Value and adds nothing to its
\* word; an unterminated quote is a syntax error (ok = FALSE).
RECURSIVE ShScan(_, _, _, _, _, _)
ShScan(cmd, i, inQuote, word, call, calls) ==
    LET endWord == IF word = "" THEN call ELSE Append(call, word)
        endCall == IF endWord = <<>> THEN calls ELSE Append(calls, endWord)
    IN  IF i > Len(cmd)
        THEN [ok |-> ~inQuote, calls |-> endCall]
        ELSE LET c == Char(cmd, i)
             IN  IF inQuote
                 THEN ShScan(cmd, i + 1, c # "\"", word, call, calls)
                 ELSE IF c = "\"" THEN ShScan(cmd, i + 1, TRUE, word, call, calls)
                 ELSE IF c \in Whitespace THEN ShScan(cmd, i + 1, FALSE, "", endWord, calls)
                 ELSE IF c \in ShellOperators THEN ShScan(cmd, i + 1, FALSE, "", <<>>, endCall)
                 ELSE ShScan(cmd, i + 1, FALSE, word \o c, call, calls)

ShParse(command) == ShScan(command, 1, FALSE, "", <<>>, <<>>)

\* addToken: the lower-cased token, its '/'-separated pieces when it is a
\* path, and its de-dashed form when it is a flag
addToken(token) ==
    LET lower == ToLower(token)
    IN  <<lower>>
        \o (IF Includes(lower, "/") THEN NonEmpty(SplitChars(lower, {"/"})) ELSE <<>>)
        \o (IF StartsWith(lower, "-") THEN <<StripDashes(lower)>> ELSE <<>>)

RECURSIVE AddTokens(_)
AddTokens(parts) ==
    IF parts = <<>> THEN <<>> ELSE addToken(Head(parts)) \o AddTokens(Tail(parts))

\* parts.slice(1) that do not start with '-'
RECURSIVE NonFlags(_)
NonFlags(parts) ==
    IF parts = <<>> THEN <<>>
    ELSE IF StartsWith(Head(parts), "-") THEN NonFlags(Tail(parts))
    ELSE <<Head(parts)>> \o NonFlags(Tail(parts))

\* 1. AST pass: every CallExpr adds its first word as an action, every word as
\* tokens and every later non-flag word as a path (no de-duplication)
RECURSIVE AstPass(_)
AstPass(calls) ==
    IF calls = <<>> THEN [actions |-> <<>>, paths |-> <<>>, allTokens |-> <<>>]
    ELSE LET parts == Head(calls)
             rest == AstPass(Tail(calls))
         IN  [actions |-> <<ToLower(parts[1])>> \o rest.actions,
              paths |-> NonFlags(Tail(parts)) \o rest.paths,
              allTokens |-> AddTokens(parts) \o rest.allTokens]

\* command.replace(/\\(.)/g, '$1')
RECURSIVE Unescape(_)
Unescape(s) ==
    IF s = "" THEN ""
    ELSE IF Char(s, 1) = "\\" /\ Len(s) >= 2
         THEN Char(s, 2) \o Unescape(SubSeq(s, 3, Len(s)))
         ELSE Char(s, 1) \o Unescape(SubSeq(s, 2, Len(s)))

\* normalized.replace(/["'<>]/g, ' ')
RECURSIVE Sanitize(_)
Sanitize(s) ==
    IF s = "" THEN ""
    ELSE (IF Char(s, 1) \in {"\"", "'", "<", ">"} THEN " " ELSE Char(s, 1))
         \o Sanitize(SubSeq(s, 2, Len(s)))

\* sanitized.split(/[|;&]|\$\(|\)|`/); the backquote is not a character of
\* the modelled commands
RECURSIVE SegmentsFrom(_, _, _)
SegmentsFrom(s, i, cur) ==
    IF i > Len(s) THEN <<cur>>
    ELSE IF Char(s, i) = "$" /\ i < Len(s) /\ Char(s, i + 1) = "("
         THEN <<cur>> \o SegmentsFrom(s, i + 2, "")
    ELSE IF Char(s, i) \in {"|", ";", "&", ")"}
         THEN <<cur>> \o SegmentsFrom(s, i + 1, "")
    ELSE SegmentsFrom(s, i + 1, cur \o Char(s, i))

\* one segment's tokens, folded into the result so far: the first token is an
\* action, every token goes through addToken, and a later token that is no
\* flag and differs from the first is a path (actions and paths de-duplicated)
RECURSIVE LexTokens(_, _, _)
LexTokens(tokens, first, acc) ==
    IF tokens = <<>> THEN acc
    ELSE LET t == Head(tokens)
             isPath == t # first /\ ~StartsWith(t, "-") /\ ~SeqIncludes(acc.paths, t)
         IN  LexTokens(Tail(tokens), first,
                 [actions |-> acc.actions,
                  paths |-> IF isPath THEN Append(acc.paths, t) ELSE acc.paths,
                  allTokens |-> acc.allTokens \o addToken(t)])

RECURSIVE LexPass(_, _)
LexPass(segments, acc) ==
    IF segments = <<>> THEN acc
    ELSE LET tokens == NonEmpty(SplitChars(Head(segments), Whitespace))
         IN  IF tokens = <<>> THEN LexPass(Tail(segments), acc)
             ELSE LET action == ToLower(tokens[1])
                      withAction == [acc EXCEPT !.actions =
                                        IF SeqIncludes(acc.actions, action) THEN @
                                        ELSE Append(@, action)]
                  IN  LexPass(Tail(segments), LexTokens(tokens, tokens[1], withAction))

\* 2. the fallback pass over the un-escaped, de-quoted text
LexicalPass(command) ==
    LexPass(SegmentsFrom(Sanitize(Unescape(command)), 1, ""),
            [actions |-> <<>>, paths |-> <<>>, allTokens |-> <<>>])

\* the AST pass; the fallback pass runs only when the AST pass found no token
analyzeShellCommand(command) ==
    LET ast == ShParse(command)
        found == IF ast.ok THEN AstPass(ast.calls)
                 ELSE [actions |-> <<>>, paths |-> <<>>, allTokens |-> <<>>]
    IN  IF found.allTokens = <<>> THEN LexicalPass(command) ELSE found

(***************************************************************************)
(* core.ts: configuration and evaluatePolicy                               *)
(*                                                                         *)
(* A configuration is [mode, dangerousWords, ignoredTools, toolInspection, *)
(* rules, environments].  dangerousWords is a JSON value (an array of      *)
(* words, or null when the file says "dangerousWords": null, which          *)
(* mergeWithDefaults copies over the default list); toolInspection is the  *)
(* object's entries in key order; a rule without allowPaths or blockPaths  *)
(* has the empty list there (rule.allowPaths || []); environments maps     *)
(* names to [requireApproval |-> "true" | "false" | "unset"].              *)
(***************************************************************************)
JArr(items) == [t |-> "array", v |-> items]

DANGEROUS_WORDS ==
    <<"delete", "drop", "remove", "terminate", "refund", "write", "update",
      "destroy", "rm", "rmdir", "purge", "format">>

DefaultIgnoredTools ==
    <<"list_*", "get_*", "read_*", "describe_*", "read", "write", "edit",
      "multiedit", "glob", "grep", "ls", "notebookread", "notebookedit",
      "todoread", "todowrite", "webfetch", "websearch", "exitplanmode",
      "askuserquestion">>

DefaultToolInspection ==
    <<[pattern |-> "bash", field |-> "command"],
      [pattern |-> "run_shell_command", field |-> "command"],
      [pattern |-> "shell", field |-> "command"],
      [pattern |-> "terminal.execute", field |-> "command"]>>

DefaultRules ==
    <<[action |-> "rm",
       allowPaths |-> <<"**/node_modules/**", "dist/**", "build/**", ".DS_Store">>,
       blockPaths |-> <<>>]>>

NoEnvironments == [e \in {} |-> [requireApproval |-> "unset"]]

DEFAULT_CONFIG ==
    [mode |-> "standard",
     dangerousWords |-> JArr(DANGEROUS_WORDS),
     ignoredTools |-> DefaultIgnoredTools,
     toolInspection |-> DefaultToolInspection,
     rules |-> DefaultRules,
     environments |-> NoEnvironments]

\* process.env.NODE_ENV || 'development', then config.environments[env] ?? null
getActiveEnvironment(config, nodeEnv) ==
    LET env == IF nodeEnv = "" THEN "development" ELSE nodeEnv
    IN  IF env \in DOMAIN config.environments
        THEN config.environments[env]
        ELSE [requireApproval |-> "unset"]

\* action.includes('/') ? action.split('/').pop() : action
Basename(action) ==
    IF Includes(action, "/")
    THEN LET pieces == SplitChars(action, {"/"}) IN pieces[Len(pieces)]
    ELSE action

\* a rule lookup that compares the whole action only
RuleMatches_noBasename(r, action) ==
    r.action = action \/ matchesPattern(action, <<r.action>>)

\* the predicate of config.policy.rules.find
RuleMatches(r, action) ==
    LET basename == Basename(action)
    IN  \/ r.action = action
        \/ matchesPattern(action, <<r.action>>)
        \/ basename # "" /\ (r.action = basename \/ matchesPattern(basename, <<r.action>>))

\* the first rule (in the rules' order) matching the action, 0 if none
FindRule(rules, action) ==
    LET hits == {i \in 1..Len(rules) : RuleMatches(rules[i], action)}
    IN  IF hits = {} THEN 0 ELSE CHOOSE i \in hits : \A j \in hits : i <= j

\* a variant that allows as soon as one path is allowed
RuleDecision_anyAllowed(rule, paths) ==
    IF paths # <<>>
    THEN IF \E i \in 1..Len(paths) : matchesPattern(paths[i], rule.blockPaths) THEN "review"
         ELSE IF \E i \in 1..Len(paths) : matchesPattern(paths[i], rule.allowPaths) THEN "allow"
         ELSE "review"
    ELSE "review"

\* the body of "if (rule)": a blocked path, then full allowPaths cover, else review
RuleDecision(rule, paths) ==
    IF paths # <<>>
    THEN IF \E i \in 1..Len(paths) : matchesPattern(paths[i], rule.blockPaths) THEN "review"
         ELSE IF \A i \in 1..Len(paths) : matchesPattern(paths[i], rule.allowPaths) THEN "allow"
         ELSE "review"
    ELSE "review"

\* the index of the first action (in the analysis' order) that has a rule, 0 if none
FirstRuledAction(rules, actions) ==
    LET hits == {i \in 1..Len(actions) : FindRule(rules, actions[i]) # 0}
    IN  IF hits = {} THEN 0 ELSE CHOOSE i \in hits : \A j \in hits : i <= j

\* allTokens.some(token => dangerousWords.some(word => token === word.toLowerCase()))
TokensDangerous(allTokens, words) ==
    \E i \in 1..Len(allTokens) : \E w \in 1..Len(words) : allTokens[i] = ToLower(words[w])

\* the shell branch of evaluatePolicy, given analyzeShellCommand's result;
\* Array.prototype.some of a null dangerousWords is a TypeError, raised when
\* the first token is looked at
ShellDecision(config, analysis) ==
    LET hit == FirstRuledAction(config.rules, analysis.actions)
    IN  IF hit # 0
        THEN RuleDecision(config.rules[FindRule(config.rules, analysis.actions[hit])],
                          analysis.paths)
        ELSE IF analysis.allTokens # <<>> /\ config.dangerousWords.t # "array" THEN "throw"
        ELSE IF /\ analysis.allTokens # <<>>
                /\ TokensDangerous(analysis.allTokens, config.dangerousWords.v) THEN "review"
        ELSE IF config.mode = "strict" THEN "review"
        ELSE "allow"

\* a variant of the tool-name branch that looks at the mode only
NameDecision_modeOnly(config, nodeEnv, toolName) ==
    IF config.mode = "strict"
    THEN IF getActiveEnvironment(config, nodeEnv).requireApproval = "false"
         THEN "allow" ELSE "review"
    ELSE "allow"

\* the tool-name branch of evaluatePolicy
NameDecision(config, nodeEnv, toolName) ==
    IF config.dangerousWords.t # "array" THEN "throw"
    ELSE IF containsDangerousWord(toolName, config.dangerousWords.v) \/ config.mode = "strict"
         THEN IF getActiveEnvironment(config, nodeEnv).requireApproval = "false"
              THEN "allow" ELSE "review"
         ELSE "allow"

\* a variant that consults the ignored-tool list last
evaluatePolicy_ignoredLast(config, nodeEnv, toolName, args) ==
    LET shellCommand == extractShellCommand(toolName, args, config.toolInspection)
        decision == IF shellCommand.t = "string" /\ shellCommand.v # ""
                    THEN ShellDecision(config, analyzeShellCommand(shellCommand.v))
                    ELSE NameDecision(config, nodeEnv, toolName)
    IN  IF decision = "review" /\ matchesPattern(toolName, config.ignoredTools)
        THEN "allow" ELSE decision

\* evaluatePolicy(toolName, args): "allow", "review", or "throw" when it raises
evaluatePolicy(config, nodeEnv, toolName, args) ==
    IF matchesPattern(toolName, config.ignoredTools) THEN "allow"
    ELSE LET shellCommand == extractShellCommand(toolName, args, config.toolInspection)
         IN  IF shellCommand.t = "string" /\ shellCommand.v # ""
             THEN ShellDecision(config, analyzeShellCommand(shellCommand.v))
             ELSE NameDecision(config, nodeEnv, toolName)

(***************************************************************************)
(* State                                                                   *)
(***************************************************************************)
VARIABLES
    cfg,        \* cachedConfig: the resolved configuration
    nodeEnv,    \* process.env.NODE_ENV ("" when unset)
    hasKey,     \* getCredentials() yields an apiKey
    isTTY,      \* process.stdout.isTTY
    auth,       \* the direct call of evaluatePolicy / authorizeAction / authorizeHeadless
    lines,      \* proxy: the lines the child has written to its stdout, in order
    handlers,   \* proxy: handlers[i] is the 'line' handler of lines[i]
    consumer,   \* proxy: what the interceptor wrote to process.stdout, in order
    childIn,    \* proxy: what the interceptor wrote to child.stdin, in order
    exited,     \* proxy: "running", or the code the interceptor exited with
    childExit,  \* proxy: "running", or how the child ended: its code, "null" for a signal
    projectFile, \* <cwd>/node9.config.json: whether it exists, and its text
    globalFile, \* ~/.node9/config.json: whether it exists, and its text
    hook,       \* cli.ts: one run of the "check" command
    wrapped,    \* index.ts: one call of a function returned by protect()
    runner,     \* cli.ts: one run of the smart runner, node9 <command>
    reads       \* what getConfig has read from the sources since the last reset

envVars == <<cfg, nodeEnv, hasKey, isTTY, reads>>
proxyVars == <<lines, handlers, consumer, childIn, exited, childExit>>
fileVars == <<projectFile, globalFile>>
callerVars == <<hook, wrapped, runner>>
vars == <<cfg, nodeEnv, hasKey, isTTY, auth, lines, handlers, consumer, childIn, exited,
          childExit, projectFile, globalFile, hook, wrapped, runner, reads>>

(***************************************************************************)
(* core.ts: authorizeAction and authorizeHeadless.  One authorization is a *)
(* record; pc says where the async function is suspended: "remote" at       *)
(* await callNode9SaaS, "prompt" at await confirm, "done" once it has      *)
(* returned or thrown.  prompts and remoteCalls count what it has shown    *)
(* and sent.                                                               *)
(***************************************************************************)
NoArgs == JObj(NoFields)

IdleAuth ==
    [entry |-> "none", tool |-> "", args |-> NoArgs, decision |-> "none",
     pc |-> "idle", result |-> "none", reason |-> "none",
     lookups |-> 0, prompts |-> 0, remoteCalls |-> 0, remote |-> "none",
     answer |-> "none"]

Finished(a, result, reason) ==
    [a EXCEPT !.pc = "done", !.result = result, !.reason = reason]

\* a variant that approves when there are neither credentials nor a terminal
AuthBegin_failOpen(entry, decision, key, tty, tool, args) ==
    LET a == [IdleAuth EXCEPT !.entry = entry, !.tool = tool, !.args = args,
                              !.decision = decision]
        b == [a EXCEPT !.lookups = @ + 1]
    IN  IF decision = "throw" THEN Finished(a, "threw", "internal")
        ELSE IF decision = "allow" THEN Finished(a, "approved", "none")
        ELSE IF key THEN [b EXCEPT !.pc = "remote", !.remoteCalls = @ + 1]
        ELSE IF tty THEN [b EXCEPT !.pc = "prompt", !.prompts = @ + 1]
        ELSE Finished(b, "approved", "none")

\* a variant that reads the credentials before it looks at the decision
AuthBegin_credentialsFirst(entry, decision, key, tty, tool, args) ==
    LET a == [IdleAuth EXCEPT !.entry = entry, !.tool = tool, !.args = args,
                              !.decision = decision]
        b == [a EXCEPT !.lookups = @ + 1]
    IN  IF decision = "throw" THEN Finished(a, "threw", "internal")
        ELSE IF decision = "allow" THEN Finished(b, "approved", "none")
        ELSE IF key THEN [b EXCEPT !.pc = "remote", !.remoteCalls = @ + 1]
        ELSE IF tty THEN [b EXCEPT !.pc = "prompt", !.prompts = @ + 1]
        ELSE IF entry = "action" THEN Finished(b, "threw", "login")
        ELSE Finished(b, "denied", "login")

\* a variant that asks at the terminal before it looks for credentials
AuthBegin_promptFirst(entry, decision, key, tty, tool, args) ==
    LET a == [IdleAuth EXCEPT !.entry = entry, !.tool = tool, !.args = args,
                              !.decision = decision]
        b == [a EXCEPT !.lookups = @ + 1]
    IN  IF decision = "throw" THEN Finished(a, "threw", "internal")
        ELSE IF decision = "allow" THEN Finished(a, "approved", "none")
        ELSE IF tty THEN [b EXCEPT !.pc = "prompt", !.prompts = @ + 1]
        ELSE IF key THEN [b EXCEPT !.pc = "remote", !.remoteCalls = @ + 1]
        ELSE IF entry = "action" THEN Finished(b, "threw", "login")
        ELSE Finished(b, "denied", "login")

\* both entry points from the decision of their evaluatePolicy call to their
\* first suspension: an exception there leaves the function (neither entry
\* point catches it), allow short-circuits, then credentials, then the
\* terminal, and with neither authorizeAction throws and authorizeHeadless
\* returns a denial
AuthBegin(entry, decision, key, tty, tool, args) ==
    LET a == [IdleAuth EXCEPT !.entry = entry, !.tool = tool, !.args = args,
                              !.decision = decision]
        b == [a EXCEPT !.lookups = @ + 1]
    IN  IF decision = "throw" THEN Finished(a, "threw", "internal")
        ELSE IF decision = "allow" THEN Finished(a, "approved", "none")
        ELSE IF key THEN [b EXCEPT !.pc = "remote", !.remoteCalls = @ + 1]
        ELSE IF tty THEN [b EXCEPT !.pc = "prompt", !.prompts = @ + 1]
        ELSE IF entry = "action" THEN Finished(b, "threw", "login")
        ELSE Finished(b, "denied", "login")

\* what one call of the remote endpoint can come to
RemoteOutcomes == {"approved", "denied", "httpError", "networkError", "aborted"}

\* callNode9SaaS returns data.approved, and false from its catch block, which
\* takes the rejected or aborted fetch and the status that is not ok; remote
\* records whether the endpoint answered
AuthRemote_failOpen(a, outcome) ==
    [Finished(a, IF outcome = "denied" THEN "denied" ELSE "approved", "none")
        EXCEPT !.remote = IF outcome \in {"approved", "denied"} THEN "answered" ELSE "failed"]

AuthRemote(a, outcome) ==
    [Finished(a, IF outcome = "approved" THEN "approved" ELSE "denied", "none")
        EXCEPT !.remote = IF outcome \in {"approved", "denied"} THEN "answered" ELSE "failed"]

\* confirm({message: 'Authorize?', default: false}) resolved with the answer;
\* the bare Enter key resolves it with the default, false
AuthPrompt(a, answer) ==
    [Finished(a, IF answer THEN "approved" ELSE "denied", "none")
        EXCEPT !.answer = IF answer THEN "yes" ELSE "no"]

(***************************************************************************)
(* Direct calls of the exported functions                                  *)
(***************************************************************************)
\* await evaluatePolicy(toolName, args)
CallEvaluatePolicy(tool, args) ==
    /\ auth.pc = "idle"
    /\ auth' = [IdleAuth EXCEPT !.entry = "evaluate", !.tool = tool, !.args = args,
                                !.decision = evaluatePolicy(cfg, nodeEnv, tool, args),
                                !.pc = "done"]
    /\ UNCHANGED <<envVars, fileVars, callerVars, proxyVars>>

\* authorizeAction(toolName, args) up to its first suspension
CallAuthorizeAction(tool, args) ==
    /\ auth.pc = "idle"
    /\ auth' = AuthBegin("action", evaluatePolicy(cfg, nodeEnv, tool, args),
                       hasKey, isTTY, tool, args)
    /\ UNCHANGED <<envVars, fileVars, callerVars, proxyVars>>

\* authorizeHeadless(toolName, args) up to its first suspension
CallAuthorizeHeadless(tool, args) ==
    /\ auth.pc = "idle"
    /\ auth' = AuthBegin("headless", evaluatePolicy(cfg, nodeEnv, tool, args),
                       hasKey, isTTY, tool, args)
    /\ UNCHANGED <<envVars, fileVars, callerVars, proxyVars>>

\* the fetch of callNode9SaaS settles
RemoteResponds(outcome) ==
    /\ auth.pc = "remote"
    /\ auth' = AuthRemote(auth, outcome)
    /\ UNCHANGED <<envVars, fileVars, callerVars, proxyVars>>

\* the operator answers the confirm prompt
OperatorAnswers(answer) ==
    /\ auth.pc = "prompt"
    /\ auth' = AuthPrompt(auth, answer)
    /\ UNCHANGED <<envVars, fileVars, callerVars, proxyVars>>

\* the caller has its result; the next call can be made
CallReturns ==
    /\ auth.pc = "done"
    /\ auth' = IdleAuth
    /\ UNCHANGED <<envVars, fileVars, callerVars, proxyVars>>

ProxyIdle ==
    /\ lines = <<>>
    /\ handlers = <<>>
    /\ consumer = <<>>
    /\ childIn = <<>>
    /\ exited = "running"
    /\ childExit = "running"

\* getConfig has read nothing: count is the number of times it has gone to
\* the sources, project and global are the files as it found them
NoReads ==
    [count |-> 0, project |-> [exists |-> FALSE, text |-> ""],
     global |-> [exists |-> FALSE, text |-> ""]]

\* no configuration file is on disk
NoFiles ==
    /\ projectFile = [exists |-> FALSE, text |-> ""]
    /\ globalFile = [exists |-> FALSE, text |-> ""]
    /\ reads = NoReads

\* the check command has not been started
IdleHook ==
    [pc |-> "idle", stdin |-> "", raw |-> "", chunks |-> 0, timer |-> "none", tool |-> "",
     stdout |-> <<>>, stderr |-> <<>>, log |-> <<>>, code |-> "none"]

\* the protected function has not been called
IdleWrapped ==
    [pc |-> "idle", tool |-> "", args |-> <<>>, invoked |-> <<>>, outcome |-> "none",
     value |-> ""]

\* the smart runner has not been started
IdleRunner ==
    [pc |-> "idle", command |-> "", verdict |-> "none", spawned |-> FALSE,
     stderr |-> <<>>, code |-> "none"]

CallersIdle ==
    /\ hook = IdleHook
    /\ wrapped = IdleWrapped
    /\ runner = IdleRunner

(***************************************************************************)
(* SpecPolicy: tool calls judged by name, under every configuration of     *)
(* PolicyConfigs and every environment                                     *)
(***************************************************************************)
InspectGithub ==
    <<[pattern |-> "github.delete*", field |-> "params.repo_name"]>> \o DefaultToolInspection

\* NODE_ENV unset selects 'development'; 'test' has no entry
PolicyEnvironments ==
    ("development" :> [requireApproval |-> "false"]) @@
    ("production" :> [requireApproval |-> "true"])

PolicyConfigs ==
    {[mode |-> m, dangerousWords |-> d, ignoredTools |-> i, toolInspection |-> t,
      rules |-> DefaultRules, environments |-> PolicyEnvironments] :
        m \in {"standard", "strict"},
        d \in {JArr(<<>>), JArr(<<"delete", "RM">>), JNull},
        i \in {<<"list_*">>, <<"delete_*", "BASH">>},
        t \in {DefaultToolInspection, InspectGithub}}

PolicyTools ==
    {"list_users", "delete_user", "DELETE_USER", "confirm_action",
     "aws.rds.rm-database", "github.delete_repo", "Bash"}

PolicyArgs ==
    {NoArgs,
     JObj("command" :> JStr("rm src/y")),
     JObj("command" :> JNum),
     JObj("params" :> JObj("repo_name" :> JStr("node9-proxy")))}

InitPolicy ==
    /\ cfg \in PolicyConfigs
    /\ nodeEnv \in {"", "production", "test"}
    /\ hasKey \in BOOLEAN
    /\ isTTY \in BOOLEAN
    /\ auth = IdleAuth
    /\ ProxyIdle
    /\ NoFiles
    /\ CallersIdle

NextPolicy ==
    \/ \E tool \in PolicyTools, args \in PolicyArgs : CallEvaluatePolicy(tool, args)
    \/ \E tool \in PolicyTools, args \in PolicyArgs : CallAuthorizeAction(tool, args)
    \/ \E tool \in PolicyTools, args \in PolicyArgs : CallAuthorizeHeadless(tool, args)
    \/ \E outcome \in RemoteOutcomes : RemoteResponds(outcome)
    \/ \E answer \in BOOLEAN : OperatorAnswers(answer)
    \/ CallReturns

SpecPolicy == InitPolicy /\ [][NextPolicy]_vars

(***************************************************************************)
(* SpecShell: evaluatePolicy on the inspected tool 'bash', over chained    *)
(* commands and rule sets                                                  *)
(***************************************************************************)
MaxSegs == 2

ShellSegments ==
    {"rm dist/x", "rm src/y", "rm", "/usr/bin/rm src/y", "/opt/purge x", "echo \"hi"}

Joiners == {" && ", " ; ", " | "}

\* the commands of exactly n segments
RECURSIVE Chains(_)
Chains(n) ==
    IF n = 1 THEN ShellSegments
    ELSE {c \o j \o seg : c \in Chains(n - 1), j \in Joiners, seg \in ShellSegments}

ShellCommands == UNION {Chains(n) : n \in 1..MaxSegs}

\* seg is one of the joined segments of the chained command
SegmentOf(seg, command) ==
    \E i \in 1..Len(command) :
        LET last == i + Len(seg) - 1
        IN  /\ last <= Len(command)
            /\ SubSeq(command, i, last) = seg
            /\ \/ i = 1
               \/ \E j \in Joiners : i > Len(j) /\ SubSeq(command, i - Len(j), i - 1) = j
            /\ \/ last = Len(command)
               \/ \E j \in Joiners :
                      /\ last + Len(j) <= Len(command)
                      /\ SubSeq(command, last + 1, last + Len(j)) = j

RmAllowDist ==
    <<[action |-> "rm", allowPaths |-> <<"dist/**">>, blockPaths |-> <<>>]>>

RmBlockSrc ==
    <<[action |-> "rm", allowPaths |-> <<"**">>, blockPaths |-> <<"src/**">>]>>

OptThenRm ==
    <<[action |-> "/opt/*", allowPaths |-> <<"**">>, blockPaths |-> <<>>]>> \o RmAllowDist

ShellConfigs ==
    {[mode |-> m, dangerousWords |-> d, ignoredTools |-> <<"list_*">>,
      toolInspection |-> DefaultToolInspection, rules |-> r,
      environments |-> NoEnvironments] :
        m \in {"standard", "strict"},
        d \in {JArr(<<>>), JArr(<<"rm", "purge">>)},
        r \in {RmAllowDist, RmBlockSrc, OptThenRm}}

BashArgs(command) == JObj("command" :> JStr(command))

InitShell ==
    /\ cfg \in ShellConfigs
    /\ nodeEnv = ""
    /\ hasKey = FALSE
    /\ isTTY = FALSE
    /\ auth = IdleAuth
    /\ ProxyIdle
    /\ NoFiles
    /\ CallersIdle

NextShell ==
    \/ \E command \in ShellCommands : CallEvaluatePolicy("bash", BashArgs(command))
    \/ CallReturns

SpecShell == InitShell /\ [][NextShell]_vars

(***************************************************************************)
(* cli.ts: runProxy.  The child's stdout is read line by line; the 'line'  *)
(* handler is an async function, so the handler of a tool call is          *)
(* suspended at 'await authorizeAction' while later lines are handled.     *)
(* handlers[i] is the authorization of lines[i], with pc = "returned" once *)
(* the handler has run to its end.                                         *)
(***************************************************************************)
MaxLines == 2
MaxTyped == 1

\* the characters of [\x00-\x1F\x7F] that a string of the model can hold
ControlChars == {"\t", "\n", "\r", "\f"}

\* value.replace(/[\x00-\x1F\x7F]/g, '')
RECURSIVE sanitize(_)
sanitize(value) ==
    IF value = "" THEN ""
    ELSE (IF Char(value, 1) \in ControlChars THEN "" ELSE Char(value, 1))
         \o sanitize(SubSeq(value, 2, Len(value)))

ToolCallMethods == {"call_tool", "tools/call", "use_tool"}

\* a line that JSON.parse rejects
TextLine(id) == [json |-> FALSE, id |-> id, method |-> "", params |-> JUndefined]

\* a line that parses to a JSON-RPC message (method "" when it has none)
Message(id, method, params) ==
    [json |-> TRUE, id |-> id, method |-> method, params |-> params]

\* JavaScript truthiness of the modelled values (JNum is a number other than 0)
Truthy(v) ==
    IF v.t = "string" THEN v.v # "" ELSE v.t \in {"object", "array", "number"}

\* message.params?.name || message.params?.tool_name || 'unknown'
ToolName(message) ==
    IF Truthy(Member(message.params, "name")) THEN Member(message.params, "name")
    ELSE IF Truthy(Member(message.params, "tool_name")) THEN Member(message.params, "tool_name")
    ELSE JStr("unknown")

\* message.params?.arguments || message.params?.tool_input || {}
ToolArgs(message) ==
    IF Truthy(Member(message.params, "arguments")) THEN Member(message.params, "arguments")
    ELSE IF Truthy(Member(message.params, "tool_input")) THEN Member(message.params, "tool_input")
    ELSE NoArgs

\* the handler of a tool call up to its first suspension, given the tool name
\* and the decision of evaluatePolicy; sanitize of a name that is no string
\* throws before authorizeAction is called
HandlerBegin(name, decision, key, tty, args) ==
    IF name.t # "string"
    THEN Finished([IdleAuth EXCEPT !.entry = "action", !.args = args], "threw", "internal")
    ELSE AuthBegin("action", decision, key, tty, sanitize(name.v), args)

ErrorResponse(id) ==
    [jsonrpc |-> "2.0", id |-> id,
     error |-> [code |-> -32000, message |-> "Node9: Action denied."]]

\* a variant that lets a denied line through
HandlerOutput_forwardDenied(result, line) ==
    [toConsumer |-> <<line>>, toChild |-> <<>>]

\* a variant that forwards an approved line twice
HandlerOutput_forwardTwice(result, line) ==
    IF result = "denied"
    THEN [toConsumer |-> <<>>, toChild |-> <<ErrorResponse(line.id)>>]
    ELSE [toConsumer |-> <<line, line>>, toChild |-> <<>>]

\* what the handler writes once authorizeAction has settled: on approval the
\* line to process.stdout, on denial the error response to child.stdin, and
\* from the catch block (authorizeAction threw) the line to process.stdout
HandlerOutput(result, line) ==
    IF result = "denied"
    THEN [toConsumer |-> <<>>, toChild |-> <<ErrorResponse(line.id)>>]
    ELSE [toConsumer |-> <<line>>, toChild |-> <<>>]

\* a line the operator typed, as rl.on('line') writes it to child.stdin
TypedLine(text) == [input |-> text]

Typed == {k \in 1..Len(childIn) : "input" \in DOMAIN childIn[k]}

\* childOut.on('line'): the handler runs to its end for a line that is no tool
\* call, and to its first suspension for a tool call
ChildEmits(line) ==
    /\ exited = "running"
    /\ Len(lines) < MaxLines
    /\ line.id = Len(lines) + 1
    /\ lines' = Append(lines, line)
    /\ IF line.json /\ line.method \in ToolCallMethods
       THEN /\ handlers' = Append(handlers,
                  HandlerBegin(ToolName(line),
                               evaluatePolicy(cfg, nodeEnv,
                                   IF ToolName(line).t = "string"
                                   THEN sanitize(ToolName(line).v) ELSE "",
                                   ToolArgs(line)),
                               hasKey, isTTY, ToolArgs(line)))
            /\ UNCHANGED consumer
       ELSE /\ handlers' = Append(handlers, [IdleAuth EXCEPT !.pc = "returned"])
            /\ consumer' = Append(consumer, line)
    /\ UNCHANGED <<envVars, fileVars, callerVars, auth, childIn, exited, childExit>>

\* the fetch of handler i's callNode9SaaS settles
HandlerRemoteResponds(i, outcome) ==
    /\ exited = "running"
    /\ handlers[i].pc = "remote"
    /\ handlers' = [handlers EXCEPT ![i] = AuthRemote(@, outcome)]
    /\ UNCHANGED <<envVars, fileVars, callerVars, auth, lines, consumer, childIn, exited, childExit>>

\* the operator answers handler i's prompt
HandlerOperatorAnswers(i, answer) ==
    /\ exited = "running"
    /\ handlers[i].pc = "prompt"
    /\ handlers' = [handlers EXCEPT ![i] = AuthPrompt(@, answer)]
    /\ UNCHANGED <<envVars, fileVars, callerVars, auth, lines, consumer, childIn, exited, childExit>>

\* handler i continues after 'await authorizeAction'
HandlerResumes(i) ==
    /\ exited = "running"
    /\ handlers[i].pc = "done"
    /\ handlers' = [handlers EXCEPT ![i].pc = "returned"]
    /\ consumer' = consumer \o HandlerOutput(handlers[i].result, lines[i]).toConsumer
    /\ childIn' = childIn \o HandlerOutput(handlers[i].result, lines[i]).toChild
    /\ UNCHANGED <<envVars, fileVars, callerVars, auth, lines, exited, childExit>>

\* rl.on('line'): the operator's input goes to the child unchanged
OperatorTypes(text) ==
    /\ exited = "running"
    /\ Cardinality(Typed) < MaxTyped
    /\ childIn' = Append(childIn, TypedLine(text))
    /\ UNCHANGED <<envVars, fileVars, callerVars, auth, lines, handlers, consumer, exited, childExit>>

\* child.on('exit', code => process.exit(code || 0)); code is null when a
\* signal ended the child
ChildExits(code) ==
    /\ exited = "running"
    /\ childExit' = code
    /\ exited' = IF code = "null" THEN "0" ELSE code
    /\ UNCHANGED <<envVars, fileVars, callerVars, auth, lines, handlers, consumer, childIn>>

(***************************************************************************)
(* Spec: the proxy between a child and the consumer of its output          *)
(***************************************************************************)
ProxyConfigs ==
    {[mode |-> m, dangerousWords |-> JArr(<<"delete">>), ignoredTools |-> <<"list_*">>,
      toolInspection |-> DefaultToolInspection, rules |-> DefaultRules,
      environments |-> NoEnvironments] : m \in {"standard", "strict"}}

\* what the child can write as its id-th line
ProxyLines(id) ==
    {TextLine(id),
     Message(id, "tools/list", JUndefined),
     Message(id, "tools/call",
             JObj(("name" :> JStr("delete_\tuser")) @@ ("arguments" :> NoArgs))),
     Message(id, "call_tool",
             JObj(("tool_name" :> JStr("list_users")) @@ ("tool_input" :> NoArgs))),
     Message(id, "use_tool", JUndefined)}

Init ==
    /\ cfg \in ProxyConfigs
    /\ nodeEnv = ""
    /\ hasKey \in BOOLEAN
    /\ isTTY \in BOOLEAN
    /\ auth = IdleAuth
    /\ ProxyIdle
    /\ NoFiles
    /\ CallersIdle

Next ==
    \/ \E line \in ProxyLines(Len(lines) + 1) : ChildEmits(line)
    \/ \E i \in 1..Len(handlers), outcome \in RemoteOutcomes : HandlerRemoteResponds(i, outcome)
    \/ \E i \in 1..Len(handlers), answer \in BOOLEAN : HandlerOperatorAnswers(i, answer)
    \/ \E i \in 1..Len(handlers) : HandlerResumes(i)
    \/ OperatorTypes("y")
    \/ \E code \in {"null", "0", "1"} : ChildExits(code)

Spec == Init /\ [][Next]_vars

(***************************************************************************)
(* cli.ts: the "check" command, the PreToolUse hook.  Its input is the     *)
(* [data] argument or, without one, what arrives on stdin before 'end'.    *)
(* hook.pc is "idle" before the action runs, "reading" while stdin is      *)
(* collected, "auth" at await authorizeHeadless, "exited" after            *)
(* process.exit; hook.code is the exit code; hook.stdout, hook.stderr and  *)
(* hook.log are what was written to each, in order.                        *)
(***************************************************************************)
TrimChars == {" ", "\t", "\n", "\r", "\f"}

RECURSIVE TrimStart(_)
TrimStart(s) ==
    IF s # "" /\ Char(s, 1) \in TrimChars THEN TrimStart(SubSeq(s, 2, Len(s))) ELSE s

RECURSIVE TrimEnd(_)
TrimEnd(s) ==
    IF s # "" /\ Char(s, Len(s)) \in TrimChars THEN TrimEnd(SubSeq(s, 1, Len(s) - 1)) ELSE s

\* raw.trim()
Trim(s) == TrimEnd(TrimStart(s))

\* the JSON texts the hook is given, and the values JSON.parse makes of them
DeleteUserText == "{\"tool_name\":\"delete_user\",\"tool_input\":{}}"
ListUsersText == "{\"tool_name\":\"list_users\",\"tool_input\":{}}"
ControlNameText == "{\"tool_name\":\"delete_\\nuser\"}"
NumberNameText == "{\"tool_name\":7}"

JSONTexts ==
    (DeleteUserText :> JObj(("tool_name" :> JStr("delete_user")) @@ ("tool_input" :> NoArgs)))
    @@ (ListUsersText :> JObj(("tool_name" :> JStr("list_users")) @@ ("tool_input" :> NoArgs)))
    @@ (ControlNameText :> JObj("tool_name" :> JStr("delete_\nuser")))
    @@ (NumberNameText :> JObj("tool_name" :> JNum))
    @@ ("{}" :> NoArgs)
    @@ ("null" :> JNull)

\* JSON.parse(raw): whitespace around the value is skipped; any other text
\* is a SyntaxError
JSONParse(raw) ==
    IF Trim(raw) \in DOMAIN JSONTexts
    THEN [ok |-> TRUE, value |-> JSONTexts[Trim(raw)]]
    ELSE [ok |-> FALSE, value |-> JUndefined]

\* JSON.parse(raw), payload.tool_name or sanitize(...) raises: raw is no JSON,
\* the payload is null, or tool_name is neither a string nor missing
PayloadThrows(raw) ==
    \/ ~JSONParse(raw).ok
    \/ JSONParse(raw).value.t = "null"
    \/ Member(JSONParse(raw).value, "tool_name").t \notin {"string", "undefined", "null"}

\* sanitize(payload.tool_name ?? '')
PayloadToolName(raw) ==
    IF Member(JSONParse(raw).value, "tool_name").t = "string"
    THEN sanitize(Member(JSONParse(raw).value, "tool_name").v)
    ELSE ""

\* payload.tool_input ?? {}
PayloadToolInput(raw) ==
    IF Member(JSONParse(raw).value, "tool_input").t \in {"undefined", "null"}
    THEN NoArgs
    ELSE Member(JSONParse(raw).value, "tool_input")

\* process.exit(code)
HookExit(h, code) == [h EXCEPT !.pc = "exited", !.code = code]

\* the reason authorizeHeadless returns with its denial when there are neither
\* credentials nor a terminal
HeadlessReason(toolName) ==
    "Node9 blocked \"" \o toolName
        \o "\". Run 'node9 login' to enable Slack approvals, or update node9.config.json policy."

\* the message of the error authorizeAction throws in the same situation
ActionError(toolName) ==
    "[Node9] Blocked dangerous action: " \o toolName
        \o ". Run 'node9 login' to enable remote approval."

\* the reason property of what authorizeHeadless returned, or the message of
\* what an entry point threw; "" when there is none
AuthMessage(a) ==
    IF a.reason # "login" THEN ""
    ELSE IF a.entry = "action" THEN ActionError(a.tool)
    ELSE HeadlessReason(a.tool)

\* reason ?? `Node9 blocked "${toolName}".`
BlockMessage(a, toolName) ==
    IF a.reason = "login" THEN AuthMessage(a)
    ELSE "Node9 blocked \"" \o toolName \o "\"."

\* the object the hook writes to stdout for a denial
BlockDecision(msg) ==
    [decision |-> "block", reason |-> msg,
     hookSpecificOutput |-> [hookEventName |-> "PreToolUse",
                             permissionDecision |-> "deny",
                             permissionDecisionReason |-> msg]]

\* the catch block of processPayload: the error is logged and the hook exits
\* with code 0 and nothing on stdout (the writes to hook-debug.log are taken
\* to succeed)
HookCatch_failClosed(h) ==
    HookExit([h EXCEPT !.log = @ \o <<"ERROR">>,
                       !.stdout = @ \o <<BlockDecision("Node9 blocked \"\".")>>], "0")

HookCatch(h) == HookExit([h EXCEPT !.log = @ \o <<"ERROR">>], "0")

\* after the await: approved exits at once, a denial is written to stderr and
\* stdout and then the hook exits, an exception from authorizeHeadless lands
\* in the catch block
HookOutcome_silentDenial(h, a) ==
    IF a.result = "threw" THEN HookCatch(h) ELSE HookExit(h, "0")

HookOutcome(h, a) ==
    IF a.result = "approved" THEN HookExit(h, "0")
    ELSE IF a.result = "threw" THEN HookCatch(h)
    ELSE HookExit([h EXCEPT !.stderr = @ \o <<BlockMessage(a, h.tool)>>,
                            !.stdout = @ \o <<BlockDecision(BlockMessage(a, h.tool))>>],
                  "0")

\* processPayload(raw) up to its await
ProcessPayload(raw) ==
    IF Trim(raw) = ""
    THEN /\ hook' = HookExit([hook EXCEPT !.raw = raw], "0")
         /\ UNCHANGED auth
    ELSE IF PayloadThrows(raw)
    THEN /\ hook' = HookCatch([hook EXCEPT !.raw = raw, !.log = @ \o <<"STDIN", "TTY">>])
         /\ UNCHANGED auth
    ELSE /\ hook' = [hook EXCEPT !.raw = raw, !.pc = "auth",
                                 !.tool = PayloadToolName(raw),
                                 !.log = @ \o <<"STDIN", "TTY">>]
         /\ auth' = AuthBegin("headless",
                              evaluatePolicy(cfg, nodeEnv, PayloadToolName(raw),
                                             PayloadToolInput(raw)),
                              hasKey, isTTY, PayloadToolName(raw), PayloadToolInput(raw))

\* the number of 'data' events stdin delivers before 'end'
MaxChunks == 2

\* node9 check <data>: a non-empty argument is processed at once
HookWithData(data) ==
    /\ hook.pc = "idle"
    /\ data # ""
    /\ ProcessPayload(data)
    /\ UNCHANGED <<envVars, fileVars, proxyVars, wrapped, runner>>

\* what the host writes to the hook's stdin before it closes it
HookPayloads == {"", DeleteUserText, ListUsersText, "null", "oops\n"}

\* node9 check without data: the stdin listeners are installed and the
\* 500 ms timer is armed; stdin is what the host is about to write
HookWithoutData ==
    /\ hook.pc = "idle"
    /\ \E payload \in HookPayloads :
           hook' = [hook EXCEPT !.pc = "reading", !.timer = "armed", !.stdin = payload]
    /\ UNCHANGED <<envVars, fileVars, proxyVars, auth, wrapped, runner>>

\* stdin 'data': raw += chunk, the chunk being the next piece of what the host
\* writes
HookStdinData(chunk) ==
    /\ hook.pc = "reading"
    /\ hook.chunks < MaxChunks
    /\ Len(hook.raw) + Len(chunk) <= Len(hook.stdin)
    /\ SubSeq(hook.stdin, Len(hook.raw) + 1, Len(hook.raw) + Len(chunk)) = chunk
    /\ hook' = [hook EXCEPT !.raw = @ \o chunk, !.chunks = @ + 1]
    /\ UNCHANGED <<envVars, fileVars, proxyVars, auth, wrapped, runner>>

\* stdin 'end', once the host has closed it and every chunk is delivered:
\* processPayload(raw)
HookStdinEnd ==
    /\ hook.pc = "reading"
    /\ hook.raw = hook.stdin
    /\ ProcessPayload(hook.raw)
    /\ UNCHANGED <<envVars, fileVars, proxyVars, wrapped, runner>>

\* the 500 ms timer: if (!raw) process.exit(0)
HookTimer ==
    /\ hook.timer = "armed"
    /\ hook.pc # "exited"
    /\ hook' = IF hook.raw = "" THEN HookExit([hook EXCEPT !.timer = "fired"], "0")
               ELSE [hook EXCEPT !.timer = "fired"]
    /\ UNCHANGED <<envVars, fileVars, proxyVars, auth, wrapped, runner>>

\* authorizeHeadless has settled and processPayload goes on after its await
HookResumes ==
    /\ hook.pc = "auth"
    /\ auth.pc = "done"
    /\ hook' = HookOutcome(hook, auth)
    /\ auth' = [auth EXCEPT !.pc = "returned"]
    /\ UNCHANGED <<envVars, fileVars, proxyVars, wrapped, runner>>

HookConfigs ==
    {[DEFAULT_CONFIG EXCEPT !.mode = mode, !.dangerousWords = words, !.environments = envs] :
        mode \in {"standard", "strict"},
        words \in {JArr(<<"delete">>), JNull},
        envs \in {NoEnvironments}}

HookData ==
    {DeleteUserText, ListUsersText, ControlNameText, NumberNameText, "{}", "null",
     "not json", " \n", " " \o DeleteUserText \o "\n"}

\* stdin delivers a text whole or in pieces
HookChunks ==
    {DeleteUserText, SubSeq(DeleteUserText, 1, 24),
     SubSeq(DeleteUserText, 25, Len(DeleteUserText)), ListUsersText, "null", "oops", "\n",
     "nu", "l"}

InitHook ==
    /\ cfg \in HookConfigs
    /\ nodeEnv = ""
    /\ hasKey \in BOOLEAN
    /\ isTTY \in BOOLEAN
    /\ auth = IdleAuth
    /\ ProxyIdle
    /\ NoFiles
    /\ CallersIdle

NextHook ==
    \/ \E data \in HookData : HookWithData(data)
    \/ HookWithoutData
    \/ \E chunk \in HookChunks : HookStdinData(chunk)
    \/ HookStdinEnd
    \/ HookTimer
    \/ \E outcome \in RemoteOutcomes : RemoteResponds(outcome)
    \/ \E answer \in BOOLEAN : OperatorAnswers(answer)
    \/ HookResumes

SpecHook == InitHook /\ [][NextHook]_vars

(***************************************************************************)
(* index.ts: protect(toolName, fn).  wrapped is one call of the function   *)
(* protect returned: "waiting" at await authorizeAction, "settled" once    *)
(* its promise is resolved or rejected; invoked lists the argument lists   *)
(* fn was called with.                                                     *)
(***************************************************************************)
\* the message of the error the wrapper throws on a denial
DeniedError(toolName) ==
    "Node9: Execution of " \o toolName \o " was denied by the user."

\* what fn does when it is called: it returns a value or throws
FnResults == {[throws |-> FALSE, value |-> "ok"], [throws |-> TRUE, value |-> "fn failed"]}

\* the wrapper after await authorizeAction: an exception of authorizeAction
\* rejects the promise, a denial throws, and only then is fn called
WrappedOutcome_callAnyway(w, a, fnResult) ==
    [w EXCEPT !.pc = "settled",
              !.invoked = Append(@, w.args),
              !.outcome = IF fnResult.throws THEN "rejected" ELSE "resolved",
              !.value = fnResult.value]

WrappedOutcome(w, a, fnResult) ==
    IF a.result = "threw"
    THEN [w EXCEPT !.pc = "settled", !.outcome = "rejected",
                   !.value = IF a.reason = "login" THEN AuthMessage(a) ELSE "TypeError"]
    ELSE IF a.result = "denied"
    THEN [w EXCEPT !.pc = "settled", !.outcome = "rejected", !.value = DeniedError(w.tool)]
    ELSE [w EXCEPT !.pc = "settled",
                   !.invoked = Append(@, w.args),
                   !.outcome = IF fnResult.throws THEN "rejected" ELSE "resolved",
                   !.value = fnResult.value]

\* secured(...args): authorizeAction(toolName, args) up to its first suspension
CallProtected(tool, args) ==
    /\ wrapped.pc = "idle"
    /\ wrapped' = [wrapped EXCEPT !.pc = "waiting", !.tool = tool, !.args = args]
    /\ auth' = AuthBegin("action", evaluatePolicy(cfg, nodeEnv, tool, JArr(args)),
                       hasKey, isTTY, tool, JArr(args))
    /\ UNCHANGED <<envVars, fileVars, proxyVars, hook, runner>>

\* authorizeAction has settled and the wrapper goes on after its await
WrappedResumes(fnResult) ==
    /\ wrapped.pc = "waiting"
    /\ auth.pc = "done"
    /\ wrapped' = WrappedOutcome(wrapped, auth, fnResult)
    /\ auth' = [auth EXCEPT !.pc = "returned"]
    /\ UNCHANGED <<envVars, fileVars, proxyVars, hook, runner>>

ProtectedTools == {"delete_resource", "list_users", "delete_record", "fetch_page"}

ProtectedArgs == {<<>>, <<JStr("arg1"), JNum>>}

InitProtect ==
    /\ cfg \in HookConfigs
    /\ nodeEnv = ""
    /\ hasKey \in BOOLEAN
    /\ isTTY \in BOOLEAN
    /\ auth = IdleAuth
    /\ ProxyIdle
    /\ NoFiles
    /\ CallersIdle

NextProtect ==
    \/ \E tool \in ProtectedTools, args \in ProtectedArgs : CallProtected(tool, args)
    \/ \E outcome \in RemoteOutcomes : RemoteResponds(outcome)
    \/ \E answer \in BOOLEAN : OperatorAnswers(answer)
    \/ \E fnResult \in FnResults : WrappedResumes(fnResult)

SpecProtect == InitProtect /\ [][NextProtect]_vars

(***************************************************************************)
(* cli.ts: the smart runner, node9 <command> [args...].  The action        *)
(* handler awaits authorizeHeadless('shell', {command}) and then either    *)
(* exits with 1 or awaits runProxy, which spawns the command.  The handler *)
(* catches nothing, so an exception of authorizeHeadless is an unhandled   *)
(* rejection: the process ends without having spawned anything, with the   *)
(* exit code the Node version gives an unhandled rejection.                *)
(***************************************************************************)
\* exit codes of a process that ends on an unhandled rejection: 1 where it
\* is fatal, 0 where it is only warned about
RejectionCodes == {"0", "1"}

\* how a child can end: an exit code, or "null" when a signal ended it
ChildCodes == {"0", "1", "null"}

\* a variant that runs the command whatever the verdict
RunnerOutcome_spawnAnyway(r, a, rejectionCode) ==
    IF a.result = "threw"
        THEN [r EXCEPT !.pc = "exited", !.verdict = "threw", !.code = rejectionCode,
                       !.stderr = <<AuthMessage(a)>>]
        ELSE [r EXCEPT !.pc = "proxy", !.verdict = a.result, !.spawned = TRUE]

\* the handler from the return of authorizeHeadless on
RunnerOutcome(r, a, rejectionCode) ==
    IF a.result = "threw"
        THEN [r EXCEPT !.pc = "exited", !.verdict = "threw", !.code = rejectionCode,
                       !.stderr = <<AuthMessage(a)>>]
    ELSE IF a.result # "approved"
        THEN [r EXCEPT !.pc = "exited", !.verdict = "denied", !.code = "1",
                       !.stderr = <<"Node9 Blocked: " \o
                                    (IF AuthMessage(a) = "" THEN "Dangerous command detected."
                                     ELSE AuthMessage(a))>>]
        ELSE [r EXCEPT !.pc = "proxy", !.verdict = "approved", !.spawned = TRUE]

\* node9 <command>: the handler up to the first suspension of authorizeHeadless
RunnerStarts(command) ==
    /\ runner.pc = "idle"
    /\ auth.pc = "idle"
    /\ runner' = [runner EXCEPT !.pc = "auth", !.command = command]
    /\ auth' = AuthBegin("headless", evaluatePolicy(cfg, nodeEnv, "shell", BashArgs(command)),
                       hasKey, isTTY, "shell", BashArgs(command))
    /\ UNCHANGED <<envVars, fileVars, proxyVars, hook, wrapped>>

\* authorizeHeadless has returned or thrown
RunnerResumes(rejectionCode) ==
    /\ runner.pc = "auth"
    /\ auth.pc = "done"
    /\ runner' = RunnerOutcome(runner, auth, rejectionCode)
    /\ auth' = IdleAuth
    /\ UNCHANGED <<envVars, fileVars, proxyVars, hook, wrapped>>

\* the spawned command ends: child.on('exit', (code) => process.exit(code || 0))
RunnerChildExits(code) ==
    /\ runner.pc = "proxy"
    /\ runner' = [runner EXCEPT !.pc = "exited",
                                !.code = IF code = "null" THEN "0" ELSE code]
    /\ UNCHANGED <<envVars, fileVars, proxyVars, auth, hook, wrapped>>

RunnerCommands == {"gemini", "ls", "rm src/y", "rm -rf /", "purge \"x"}

InitRunner ==
    /\ cfg \in HookConfigs
    /\ nodeEnv = ""
    /\ hasKey \in BOOLEAN
    /\ isTTY \in BOOLEAN
    /\ auth = IdleAuth
    /\ ProxyIdle
    /\ NoFiles
    /\ CallersIdle

NextRunner ==
    \/ \E command \in RunnerCommands : RunnerStarts(command)
    \/ \E outcome \in RemoteOutcomes : RemoteResponds(outcome)
    \/ \E answer \in BOOLEAN : OperatorAnswers(answer)
    \/ \E rejectionCode \in RejectionCodes : RunnerResumes(rejectionCode)
    \/ \E code \in ChildCodes : RunnerChildExits(code)

SpecRunner == InitRunner /\ [][NextRunner]_vars

(***************************************************************************)
(* core.ts: getConfig.  A configuration file is on disk or not, and holds  *)
(* a text; cfg is cachedConfig, NullConfig until the first getConfig.      *)
(***************************************************************************)
NullConfig == [null |-> TRUE]

AbsentFile == [exists |-> FALSE, text |-> ""]

FileWith(text) == [exists |-> TRUE, text |-> text]

\* the texts of the configuration files, and the values JSON.parse makes of
\* them; a section is an object of the fields it names
ProjectText ==
    "{\"settings\":{\"mode\":\"standard\"},\"policy\":{\"dangerousWords\":[],\"ignoredTools\":[]},\"environments\":{}}"
GlobalText ==
    "{\"settings\":{\"mode\":\"standard\"},\"policy\":{\"dangerousWords\":[\"nuke\"],\"ignoredTools\":[]},\"environments\":{}}"
StrictText == "{\"settings\":{\"mode\":\"strict\"}}"
NullWordsText == "{\"policy\":{\"dangerousWords\":null},\"settings\":{}}"
DevelopmentText == "{\"environments\":{\"development\":{\"requireApproval\":false}}}"

ConfigTexts ==
    (ProjectText :>
        JObj(("settings" :> JObj("mode" :> "standard"))
             @@ ("policy" :> JObj(("dangerousWords" :> JArr(<<>>)) @@ ("ignoredTools" :> <<>>)))
             @@ ("environments" :> JObj(NoEnvironments))))
    @@ (GlobalText :>
        JObj(("settings" :> JObj("mode" :> "standard"))
             @@ ("policy" :> JObj(("dangerousWords" :> JArr(<<"nuke">>))
                                  @@ ("ignoredTools" :> <<>>)))
             @@ ("environments" :> JObj(NoEnvironments))))
    @@ (StrictText :> JObj("settings" :> JObj("mode" :> "strict")))
    @@ (NullWordsText :>
        JObj(("policy" :> JObj("dangerousWords" :> JNull)) @@ ("settings" :> JObj(NoFields))))
    @@ (DevelopmentText :>
        JObj("environments" :>
                JObj("development" :> [requireApproval |-> "false"])))
    @@ ("{}" :> JObj(NoFields))
    @@ ("null" :> JNull)

\* tryLoadConfig(filePath): null for a file that is not there, for a text
\* JSON.parse rejects and for the value null, on which validateConfig throws;
\* all inside try/catch
tryLoadConfig(file) ==
    IF ~file.exists \/ file.text \notin DOMAIN ConfigTexts THEN JNull
    ELSE ConfigTexts[file.text]

\* (parsed.<section> as object) || {}
SectionOf(parsed, section) ==
    IF Member(parsed, section).t = "object" THEN Member(parsed, section).f ELSE NoFields

\* one field of { ...DEFAULT_CONFIG.<section>, ...<section of the file> }
Spread(fields, name, default) ==
    IF name \in DOMAIN fields THEN fields[name] ELSE default

\* a variant that never takes dangerousWords from the file
mergeWithDefaults_defaultWords(parsed) ==
    [mode |-> Spread(SectionOf(parsed, "settings"), "mode", DEFAULT_CONFIG.mode),
     dangerousWords |-> DEFAULT_CONFIG.dangerousWords,
     ignoredTools |->
        Spread(SectionOf(parsed, "policy"), "ignoredTools", DEFAULT_CONFIG.ignoredTools),
     toolInspection |->
        Spread(SectionOf(parsed, "policy"), "toolInspection", DEFAULT_CONFIG.toolInspection),
     rules |-> Spread(SectionOf(parsed, "policy"), "rules", DEFAULT_CONFIG.rules),
     environments |-> SectionOf(parsed, "environments")]

\* mergeWithDefaults(parsed): settings and policy are the default section
\* overlaid with the fields of the file's section; environments is the file's
\* section, or {}
mergeWithDefaults(parsed) ==
    [mode |-> Spread(SectionOf(parsed, "settings"), "mode", DEFAULT_CONFIG.mode),
     dangerousWords |->
        Spread(SectionOf(parsed, "policy"), "dangerousWords", DEFAULT_CONFIG.dangerousWords),
     ignoredTools |->
        Spread(SectionOf(parsed, "policy"), "ignoredTools", DEFAULT_CONFIG.ignoredTools),
     toolInspection |->
        Spread(SectionOf(parsed, "policy"), "toolInspection", DEFAULT_CONFIG.toolInspection),
     rules |-> Spread(SectionOf(parsed, "policy"), "rules", DEFAULT_CONFIG.rules),
     environments |-> SectionOf(parsed, "environments")]

\* a variant that looks at the user-global file first
getConfig_globalFirst(cached, project, global) ==
    IF cached # NullConfig THEN cached
    ELSE IF tryLoadConfig(global).t # "null" THEN mergeWithDefaults(tryLoadConfig(global))
    ELSE IF tryLoadConfig(project).t # "null" THEN mergeWithDefaults(tryLoadConfig(project))
    ELSE DEFAULT_CONFIG

\* a variant without the cache: every call goes to the sources
getConfig_uncached(cached, project, global) ==
    IF tryLoadConfig(project).t # "null" THEN mergeWithDefaults(tryLoadConfig(project))
    ELSE IF tryLoadConfig(global).t # "null" THEN mergeWithDefaults(tryLoadConfig(global))
    ELSE DEFAULT_CONFIG

\* getConfig(): the cache, else the project file, else the user-global file,
\* else DEFAULT_CONFIG
getConfig(cached, project, global) ==
    IF cached # NullConfig THEN cached
    ELSE IF tryLoadConfig(project).t # "null" THEN mergeWithDefaults(tryLoadConfig(project))
    ELSE IF tryLoadConfig(global).t # "null" THEN mergeWithDefaults(tryLoadConfig(global))
    ELSE DEFAULT_CONFIG

\* what getConfig has read once it returns: nothing new when the cache is
\* filled, else the two files as they are
ReadsAfter(cached, r, project, global) ==
    IF cached # NullConfig THEN r
    ELSE [count |-> r.count + 1, project |-> project, global |-> global]

\* the first getConfig() of the process fills the cache
CallGetConfig ==
    /\ cfg = NullConfig
    /\ cfg' = getConfig(cfg, projectFile, globalFile)
    /\ reads' = ReadsAfter(cfg, reads, projectFile, globalFile)
    /\ UNCHANGED <<nodeEnv, hasKey, isTTY, fileVars, auth, proxyVars, callerVars>>

\* _resetConfigCache()
ResetConfigCache ==
    /\ cfg # NullConfig
    /\ cfg' = NullConfig
    /\ reads' = NoReads
    /\ UNCHANGED <<nodeEnv, hasKey, isTTY, fileVars, auth, proxyVars, callerVars>>

ConfigFiles ==
    {AbsentFile, FileWith("{ oops"), FileWith(""), FileWith("null"), FileWith("{}"),
     FileWith(ProjectText), FileWith(GlobalText), FileWith(StrictText),
     FileWith(NullWordsText), FileWith(DevelopmentText)}

InitConfig ==
    /\ cfg = NullConfig
    /\ nodeEnv = ""
    /\ hasKey = FALSE
    /\ isTTY = FALSE
    /\ auth = IdleAuth
    /\ ProxyIdle
    /\ projectFile \in ConfigFiles
    /\ globalFile \in ConfigFiles
    /\ reads = NoReads
    /\ CallersIdle

NextConfig ==
    \/ CallGetConfig
    \/ ResetConfigCache

SpecConfig == InitConfig /\ [][NextConfig]_vars

(***************************************************************************)
(* Properties of the policy engine and the entry points (SpecPolicy)       *)
(***************************************************************************)
\* C3: a tool name that matches an ignoredTools pattern is allowed for all
\* arguments, whatever dangerousWords, mode, toolInspection, rules and the
\* environment are, and both entry points then approve at once, without a
\* prompt and without a remote call.
C3_IgnoredToolPrecedence ==
    (auth.pc # "idle" /\ matchesPattern(auth.tool, cfg.ignoredTools)) =>
        /\ auth.decision = "allow"
        /\ auth.entry \in {"action", "headless"} =>
              /\ auth.pc = "done"
              /\ auth.result = "approved"
              /\ auth.prompts = 0
              /\ auth.remoteCalls = 0

\* C3 witness: authorizeHeadless has approved the ignored tool delete_user in
\* strict mode with 'delete' a dangerous word, on a terminal, with credentials.
C3_Witness ==
    /\ auth.entry = "headless"
    /\ auth.tool = "delete_user"
    /\ matchesPattern(auth.tool, cfg.ignoredTools)
    /\ cfg.mode = "strict"
    /\ cfg.dangerousWords = JArr(<<"delete", "RM">>)
    /\ hasKey /\ isTTY
    /\ auth.result = "approved"

C6_NoSubstringFalsePositive ==
    (/\ auth.pc # "idle"
     /\ cfg.mode = "standard"
     /\ cfg.dangerousWords.t = "array"
     /\ \A w \in 1..Len(cfg.dangerousWords.v) :
            ~SeqIncludes(tokenize(auth.tool), ToLower(cfg.dangerousWords.v[w]))
     /\ LET shellCommand == extractShellCommand(auth.tool, auth.args, cfg.toolInspection)
        IN  shellCommand.t = "string" => shellCommand.v = "")
    => auth.decision = "allow"

\* C6 witness: confirm_action, which has 'rm' inside its token 'confirm', has
\* been allowed in standard mode with 'RM' a dangerous word, and it is not an
\* ignored tool.
C6_Witness ==
    /\ auth.pc # "idle"
    /\ auth.tool = "confirm_action"
    /\ cfg.mode = "standard"
    /\ cfg.dangerousWords = JArr(<<"delete", "RM">>)
    /\ ~matchesPattern(auth.tool, cfg.ignoredTools)
    /\ auth.decision = "allow"

\* C10: authorizeHeadless completes without throwing or rejecting, for every
\* tool name and argument value and every outcome of policy evaluation,
\* credential lookup, remote call and prompt.
C10_HeadlessNeverRaises ==
    (auth.entry = "headless" /\ auth.pc = "done") => auth.result # "threw"

(***************************************************************************)
(* Properties of the shell branch (SpecShell)                              *)
(***************************************************************************)
\* C4: in strict mode, with dangerousWords a list (possibly empty), every tool
\* call whose tool name matches no ignoredTools pattern is judged review, for
\* all arguments, inspected shell commands covered by a rule included.
C4_StrictReviewsEverything ==
    (/\ auth.pc # "idle"
     /\ cfg.mode = "strict"
     /\ cfg.dangerousWords.t = "array"
     /\ ~matchesPattern(auth.tool, cfg.ignoredTools))
    => auth.decision = "review"

\* C7: when some detected action of an inspected command matches a rule, the
\* decision is allow if and only if at least one path was detected, no
\* detected path matches the blockPaths and every detected path matches the
\* allowPaths of the rule (the first rule that matches the first action that
\* has one); in every other case it is review.
C7_RulePathClassification ==
    auth.pc # "idle" =>
        LET analysis == analyzeShellCommand(auth.args.f["command"].v)
            hit == FirstRuledAction(cfg.rules, analysis.actions)
            rule == cfg.rules[FindRule(cfg.rules, analysis.actions[hit])]
            paths == analysis.paths
        IN  hit # 0 =>
                /\ auth.decision \in {"allow", "review"}
                /\ auth.decision = "allow" <=>
                      /\ paths # <<>>
                      /\ \A i \in 1..Len(paths) : ~matchesPattern(paths[i], rule.blockPaths)
                      /\ \A i \in 1..Len(paths) : matchesPattern(paths[i], rule.allowPaths)

\* C7 witness: 'rm dist/x ; rm src/y' under the rule rm -> allowPaths dist/**
\* (standard mode, no dangerous words): one path is covered, the other is not,
\* and the decision is review.
C7_Witness ==
    /\ auth.pc # "idle"
    /\ auth.args = BashArgs("rm dist/x ; rm src/y")
    /\ cfg.rules = RmAllowDist
    /\ cfg.mode = "standard"
    /\ cfg.dangerousWords = JArr(<<>>)
    /\ auth.decision = "review"

\* C8: a chained command (segments joined with '&&', ';' or '|') is judged
\* review whenever one of its segments, evaluated on its own, is judged review.
C8_ChainedCommandResistance ==
    auth.pc # "idle" =>
        \A seg \in ShellSegments :
            (/\ SegmentOf(seg, auth.args.f["command"].v)
             /\ evaluatePolicy(cfg, nodeEnv, auth.tool, BashArgs(seg)) = "review")
            => auth.decision = "review"

C1_DeniedLineAnsweredToChild ==
    \A i \in 1..Len(handlers) :
        handlers[i].result = "denied" =>
            /\ \A k \in 1..Len(consumer) :
                   consumer[k] # lines[i] /\ consumer[k] # ErrorResponse(lines[i].id)
            /\ handlers[i].pc = "returned" =>
                   \E k \in 1..Len(childIn) : childIn[k] = ErrorResponse(lines[i].id)

\* C1 witness: the operator has denied a tools/call line at the prompt, its
\* handler has run to its end and the error response is on the child's stdin.
C1_Witness ==
    \E i \in 1..Len(handlers) :
        /\ lines[i].method = "tools/call"
        /\ handlers[i].prompts = 1
        /\ handlers[i].result = "denied"
        /\ handlers[i].pc = "returned"
        /\ \E k \in 1..Len(childIn) : childIn[k] = ErrorResponse(lines[i].id)

\* C1 (as stated): when a child output line is a tool call and authorization
\* denies it, the consumer receives the synthesized error response with the
\* message's id (once the handler has run to its end) and never the original
\* line.
C1_DeniedLineAnsweredToConsumer ==
    \A i \in 1..Len(handlers) :
        handlers[i].result = "denied" =>
            /\ \A k \in 1..Len(consumer) : consumer[k] # lines[i]
            /\ handlers[i].pc = "returned" =>
                   \E k \in 1..Len(consumer) : consumer[k] = ErrorResponse(lines[i].id)

\* C2: a tool-call line whose policy decision is review is on the consumer's
\* side only if its authorization returned approved; after a denial, a failed
\* remote call or a throw of authorizeAction it is not forwarded.
C2_ForwardedOnlyIfApproved ==
    \A i \in 1..Len(handlers) :
        (/\ handlers[i].decision = "review"
         /\ \E k \in 1..Len(consumer) : consumer[k] = lines[i])
        => handlers[i].result = "approved"

(***************************************************************************)
(* Properties of the check hook (SpecHook)                                 *)
(***************************************************************************)
\* C11: when authorizeHeadless raises for a well-formed payload (policy
\* evaluation, credential lookup, remote call or prompt), the check hook ends
\* with a block decision carrying a reason on stdout, never with an allow.
C11_ExceptionBecomesBlock ==
    (hook.pc = "exited" /\ auth.entry = "headless" /\ auth.result = "threw") =>
        /\ Len(hook.stdout) = 1
        /\ hook.stdout[1].decision = "block"
        /\ hook.stdout[1].reason # ""

\* C12: input that is empty, whitespace only or not parseable as JSON, given
\* as the argument or on stdin, is resolved as allow: the hook exits with
\* code 0, has written nothing to stdout and has not asked for authorization.
C12_MalformedInputAllows ==
    (hook.pc = "exited" /\ (Trim(hook.raw) = "" \/ ~JSONParse(hook.raw).ok)) =>
        /\ hook.code = "0"
        /\ hook.stdout = <<>>
        /\ auth = IdleAuth

\* C12 witness: the hook has exited on text that is no JSON, through its
\* catch block, and on whitespace, before anything was logged
C12_Witness ==
    /\ hook.pc = "exited"
    /\ hook.code = "0"
    /\ hook.stdout = <<>>
    /\ \/ hook.raw = "not json" /\ hook.log = <<"STDIN", "TTY", "ERROR">>
       \/ hook.raw = "oops\n" /\ hook.chunks = 2

C14_HeadlessFailClosed ==
    (auth.entry \in {"action", "headless"} /\ auth.decision = "review"
        /\ ~hasKey /\ ~isTTY) =>
        /\ auth.pc = "done"
        /\ auth.result = IF auth.entry = "action" THEN "threw" ELSE "denied"
        /\ IncludesText(AuthMessage(auth), "node9 login")
        /\ auth.remoteCalls = 0
        /\ auth.prompts = 0

\* C14 witness: authorizeHeadless has denied delete_user with the login
\* guidance, with no credentials and no terminal
C14_Witness ==
    /\ auth.entry = "headless"
    /\ auth.tool = "delete_user"
    /\ auth.decision = "review"
    /\ ~hasKey /\ ~isTTY
    /\ auth.result = "denied"
    /\ AuthMessage(auth) = HeadlessReason("delete_user")

\* C15: whenever evaluatePolicy returns allow, authorizeAction and
\* authorizeHeadless return approved=true and have not looked up credentials,
\* called the remote endpoint or shown a prompt.
C15_AllowShortCircuit ==
    (auth.entry \in {"action", "headless"} /\ auth.decision = "allow") =>
        /\ auth.pc = "done"
        /\ auth.result = "approved"
        /\ auth.lookups = 0
        /\ auth.remoteCalls = 0
        /\ auth.remote = "none"
        /\ auth.prompts = 0

\* C15 witness: authorizeAction has approved a call that the policy allows,
\* although credentials and a terminal are there to ask
C15_Witness ==
    /\ auth.entry = "action"
    /\ auth.decision = "allow"
    /\ hasKey /\ isTTY
    /\ ~matchesPattern(auth.tool, cfg.ignoredTools)
    /\ auth.result = "approved"
    /\ auth.lookups = 0

\* C16: the remote endpoint is called at most once per authorization, and
\* exactly once when credentials are there for a review; a transport error,
\* an abort and a status that is not ok all end in approved=false, with no
\* exception, no second call and no prompt.
C16_RemoteFailureIsDenial ==
    /\ auth.remoteCalls <= 1
    /\ (auth.entry \in {"action", "headless"} /\ auth.decision = "review" /\ hasKey) =>
          auth.remoteCalls = 1 /\ auth.prompts = 0
    /\ auth.remote = "failed" =>
          /\ auth.pc = "done"
          /\ auth.result = "denied"
          /\ auth.remoteCalls = 1
          /\ auth.prompts = 0

\* C16 witness: the one remote call of authorizeHeadless failed, with a
\* terminal at hand, and the authorization is denied
C16_Witness ==
    /\ auth.entry = "headless"
    /\ auth.remote = "failed"
    /\ isTTY
    /\ auth.result = "denied"
    /\ auth.remoteCalls = 1

(***************************************************************************)
(* Properties of protect() (SpecProtect)                                   *)
(***************************************************************************)
\* C17: the function wrapped by protect is invoked only after authorizeAction
\* returned approved=true, then once, with the caller's arguments, and its
\* result is what the wrapper resolves to; when authorization is denied or
\* raises, the wrapper rejects with an error and the function is not invoked.
C17_ProtectInvokesOnlyApproved ==
    /\ wrapped.pc # "settled" => wrapped.invoked = <<>> /\ wrapped.outcome = "none"
    /\ wrapped.invoked # <<>> =>
          /\ auth.result = "approved"
          /\ wrapped.invoked = <<wrapped.args>>
    /\ (wrapped.pc = "settled" /\ auth.result = "approved") =>
          /\ wrapped.invoked = <<wrapped.args>>
          /\ wrapped.outcome = "resolved" => wrapped.value = "ok"
    /\ (wrapped.pc = "settled" /\ auth.result \in {"denied", "threw"}) =>
          /\ wrapped.invoked = <<>>
          /\ wrapped.outcome = "rejected"
          /\ wrapped.value # ""

\* C17 witness: the operator answered no for delete_resource, the wrapper
\* has rejected with the denial error and the function was not invoked
C17_Witness ==
    /\ wrapped.pc = "settled"
    /\ wrapped.tool = "delete_resource"
    /\ wrapped.args = <<JStr("arg1"), JNum>>
    /\ auth.prompts = 1
    /\ auth.result = "denied"
    /\ wrapped.outcome = "rejected"
    /\ wrapped.value = DeniedError("delete_resource")
    /\ wrapped.invoked = <<>>

C19_SectionReplacedExactly ==
    LET src == IF tryLoadConfig(projectFile).t = "object"
               THEN tryLoadConfig(projectFile) ELSE tryLoadConfig(globalFile)
    IN  (cfg # NullConfig /\ src.t = "object") =>
            /\ (Member(src, "settings").t = "object"
                  /\ "mode" \notin DOMAIN Member(src, "settings").f) =>
                  cfg.mode # DEFAULT_CONFIG.mode
            /\ \A name \in {"dangerousWords", "ignoredTools", "toolInspection", "rules"} :
                  (Member(src, "policy").t = "object"
                    /\ name \notin DOMAIN Member(src, "policy").f) =>
                      cfg[name] # DEFAULT_CONFIG[name]

\* C19 (amended): every field of settings and policy is the one the selected
\* source's section gives, and the built-in default's where the section or
\* the field is missing; environments is the source's section as it is, and
\* empty when the source has none.
C19_FieldsOverlayDefaults ==
    LET src == IF tryLoadConfig(projectFile).t = "object"
               THEN tryLoadConfig(projectFile) ELSE tryLoadConfig(globalFile)
    IN  (cfg # NullConfig /\ src.t = "object") =>
            /\ cfg.mode = IF Member(src, "settings").t = "object"
                               /\ "mode" \in DOMAIN Member(src, "settings").f
                          THEN Member(src, "settings").f["mode"]
                          ELSE DEFAULT_CONFIG.mode
            /\ \A name \in {"dangerousWords", "ignoredTools", "toolInspection", "rules"} :
                  cfg[name] = IF Member(src, "policy").t = "object"
                                  /\ name \in DOMAIN Member(src, "policy").f
                              THEN Member(src, "policy").f[name]
                              ELSE DEFAULT_CONFIG[name]
            /\ cfg.environments = IF Member(src, "environments").t = "object"
                                  THEN Member(src, "environments").f
                                  ELSE NoEnvironments

\* C19 witness: the project file's policy section names dangerousWords only;
\* the resolved policy has that value and the default ignoredTools and rules
C19_Witness ==
    /\ projectFile = FileWith(NullWordsText)
    /\ cfg # NullConfig
    /\ cfg.dangerousWords = JNull
    /\ cfg.ignoredTools = DefaultIgnoredTools
    /\ cfg.rules = DefaultRules
    /\ cfg.mode = "standard"

(***************************************************************************)
(* Properties of the environment override (SpecPolicy)                     *)
(***************************************************************************)
\* C20: when the environment that NODE_ENV selects has requireApproval
\* false, no tool call is judged review, whether it is judged by its name or
\* by an inspected shell command, and both entry points approve it.
C20_EnvironmentAutoAllows ==
    (auth.pc # "idle" /\ auth.decision # "throw"
        /\ getActiveEnvironment(cfg, nodeEnv).requireApproval = "false") =>
        /\ auth.decision = "allow"
        /\ auth.entry \in {"action", "headless"} => auth.result = "approved"

(***************************************************************************)
(* Further properties of the proxy (Spec)                                  *)
(***************************************************************************)
\* C21: a child output line whose handler has finished and that is not a
\* denied tool call (an approved tool call, a message with another method, a
\* line that is no JSON) is on the consumer's side exactly once and
\* unchanged; no line is there more than once, and a line whose handler is
\* still waiting is not there yet.
C21_PassThroughOnce ==
    \A i \in 1..Len(lines) :
        LET copies == Cardinality({k \in 1..Len(consumer) : consumer[k] = lines[i]})
        IN  /\ copies <= 1
            /\ (handlers[i].pc = "returned" /\ handlers[i].result # "denied") => copies = 1
            /\ handlers[i].pc # "returned" => copies = 0

\* C21 witness: a line that is no JSON, and a tool call the operator
\* approved, have both been forwarded
C21_Witness ==
    /\ Len(lines) = 2
    /\ ~lines[1].json
    /\ handlers[2].prompts = 1
    /\ handlers[2].result = "approved"
    /\ handlers[2].pc = "returned"
    /\ consumer = <<lines[1], lines[2]>>

\* C23: once the child has ended, whether with a code or by a signal, the
\* interceptor has exited with what the child ended with.
C23_ExitCodeMirrored ==
    exited # "running" => exited = childExit

\* C24: at most one handler is waiting for its authorization at any time,
\* no line is forwarded while an earlier line's handler is waiting, and the
\* consumer has the forwarded lines in the order the child wrote them.
C24_ProxySerialized ==
    /\ Cardinality({i \in 1..Len(handlers) : handlers[i].pc # "returned"}) <= 1
    /\ \A j, k \in 1..Len(consumer) : j < k => consumer[j].id < consumer[k].id


(***************************************************************************)
(* Further properties of the shell analyzer (SpecShell)                    *)
(***************************************************************************)

\* the elements of a sequence
Elements(seq) == {seq[i] : i \in 1..Len(seq)}

\* commands whose structural parse fails (unterminated quote), succeeds on
\* words that carry no literal value, or succeeds with findings
AnalyzerCommands ==
    {"rm dist/x", "rm src/y", "ls", "purge", "echo \"hi", "\"purge\"",
     "echo \"purge\"", "\"rm\" src/y", "echo \"rm\" && ls"}

InitAnalyzer ==
    /\ cfg \in ShellConfigs
    /\ nodeEnv = ""
    /\ hasKey = FALSE
    /\ isTTY = FALSE
    /\ auth = IdleAuth
    /\ ProxyIdle
    /\ NoFiles
    /\ CallersIdle

NextAnalyzer ==
    \/ \E command \in AnalyzerCommands : CallEvaluatePolicy("bash", BashArgs(command))
    \/ CallReturns

SpecAnalyzer == InitAnalyzer /\ [][NextAnalyzer]_vars

\* C28: the analysis of a command contains every action, path and token the
\* lexical pass finds in it, whatever the structural pass did: failed, found
\* nothing, or found something.
C28_AnalyzerUnion ==
    (auth.entry = "evaluate" /\ auth.tool = "bash") =>
        LET command == auth.args.f["command"].v
            lexical == LexicalPass(command)
            result == analyzeShellCommand(command)
        IN  /\ Elements(lexical.actions) \subseteq Elements(result.actions)
            /\ Elements(lexical.paths) \subseteq Elements(result.paths)
            /\ Elements(lexical.allTokens) \subseteq Elements(result.allTokens)


(***************************************************************************)
(* Further properties of the authorization (SpecPolicy)                    *)
(***************************************************************************)

\* C27: on a review decision with an API key the remote endpoint is called
\* once, its verdict is the result and the terminal prompt is never shown,
\* terminal or not; the operator is prompted only without an API key and on
\* a terminal, and then the result is the operator's answer.
C27_ChannelPriority ==
    (auth.entry \in {"action", "headless"} /\ auth.decision = "review") =>
        /\ hasKey => /\ auth.prompts = 0
                     /\ auth.remoteCalls = 1
                     /\ auth.answer = "none"
                     /\ auth.pc = "done" =>
                            /\ auth.remote # "none"
                            /\ auth.remote = "failed" => auth.result = "denied"
        /\ auth.prompts > 0 => ~hasKey /\ isTTY
        /\ (~hasKey /\ isTTY) =>
               /\ auth.prompts = 1
               /\ auth.remoteCalls = 0
               /\ auth.pc = "done" =>
                      /\ auth.answer \in {"yes", "no"}
                      /\ auth.result = "approved" <=> auth.answer = "yes"

C27_Witness ==
    /\ hasKey
    /\ isTTY
    /\ auth.decision = "review"
    /\ auth.pc = "done"
    /\ auth.remote = "answered"
    /\ auth.result = "approved"
    /\ auth.prompts = 0


(***************************************************************************)
(* Properties of the smart runner (SpecRunner)                             *)
(***************************************************************************)

\* C22: the command is spawned only after authorizeHeadless returned an
\* approval; while the authorization is pending or after anything else than
\* an approval it has not been spawned, and after a denial node9 has exited
\* with code 1.
C22_SpawnOnlyAfterApproval ==
    /\ runner.spawned => runner.verdict = "approved"
    /\ runner.pc \in {"idle", "auth"} => ~runner.spawned /\ runner.verdict = "none"
    /\ runner.verdict = "denied" =>
           /\ ~runner.spawned
           /\ runner.pc = "exited"
           /\ runner.code = "1"
    /\ runner.verdict = "threw" => ~runner.spawned /\ runner.pc = "exited"

C22_Witness ==
    /\ runner.command = "rm src/y"
    /\ runner.verdict = "denied"
    /\ runner.pc = "exited"
    /\ runner.code = "1"
    /\ ~runner.spawned


(***************************************************************************)
(* Further properties of the check hook (SpecHook)                         *)
(***************************************************************************)

\* the text is a tool call that authorization denies: the policy sends it
\* to review and there are neither credentials nor a terminal
WouldDeny(text) ==
    /\ Trim(text) # ""
    /\ ~PayloadThrows(text)
    /\ ~hasKey
    /\ ~isTTY
    /\ evaluatePolicy(cfg, nodeEnv, PayloadToolName(text), PayloadToolInput(text)) = "review"

\* C25: however the 'data' and 'end' events of stdin and the 500 ms timer
\* interleave, a hook that has exited after the host wrote a payload which
\* authorization denies has written a block decision to stdout.
C25_StdinPayloadEvaluated ==
    (hook.pc = "exited" /\ WouldDeny(hook.stdin)) =>
        \E k \in 1..Len(hook.stdout) : hook.stdout[k].decision = "block"


(***************************************************************************)
(* core.ts: callNode9SaaS step by step (SpecRemote).  The call arms a      *)
(* 35 s timer that aborts the fetch, awaits the fetch, which settles when  *)
(* the response headers are in, clears the timer, and then awaits          *)
(* response.json().  pc is "remote" at await fetch and "body" at await     *)
(* response.json(); the timer is armed exactly while pc is "remote".       *)
(***************************************************************************)
\* the fetch settles with the headers: a status that is not ok throws into
\* the catch block, which returns false
AuthHeaders(a, ok) ==
    IF ok THEN [a EXCEPT !.pc = "body"]
    ELSE [Finished(a, "denied", "none") EXCEPT !.remote = "failed"]

\* response.json() settles: data.approved, or false from the catch block when
\* the body is not JSON or the connection breaks
BodyOutcomes == {"approved", "denied", "invalid"}

AuthBody(a, outcome) ==
    [Finished(a, IF outcome = "approved" THEN "approved" ELSE "denied", "none")
        EXCEPT !.remote = IF outcome = "invalid" THEN "failed" ELSE "answered"]

\* the response headers arrive; clearTimeout(timeout)
RemoteHeaders(ok) ==
    /\ auth.pc = "remote"
    /\ auth' = AuthHeaders(auth, ok)
    /\ UNCHANGED <<envVars, fileVars, callerVars, proxyVars>>

\* the fetch rejects: no connection
RemoteRejects ==
    /\ auth.pc = "remote"
    /\ auth' = AuthRemote(auth, "networkError")
    /\ UNCHANGED <<envVars, fileVars, callerVars, proxyVars>>

\* the 35 s timer fires while the fetch is pending: controller.abort()
RemoteDeadline ==
    /\ auth.pc = "remote"
    /\ auth' = AuthRemote(auth, "aborted")
    /\ UNCHANGED <<envVars, fileVars, callerVars, proxyVars>>

\* the response body is in
RemoteBody(outcome) ==
    /\ auth.pc = "body"
    /\ auth' = AuthBody(auth, outcome)
    /\ UNCHANGED <<envVars, fileVars, callerVars, proxyVars>>

RemoteTools == {"delete_user", "list_users", "Bash"}

RemoteArgs == {NoArgs, BashArgs("rm src/y")}

InitRemote ==
    /\ cfg \in HookConfigs
    /\ nodeEnv \in {"", "production"}
    /\ hasKey = TRUE
    /\ isTTY \in BOOLEAN
    /\ auth = IdleAuth
    /\ ProxyIdle
    /\ NoFiles
    /\ CallersIdle

NextRemote ==
    \/ \E tool \in RemoteTools, args \in RemoteArgs : CallAuthorizeAction(tool, args)
    \/ \E tool \in RemoteTools, args \in RemoteArgs : CallAuthorizeHeadless(tool, args)
    \/ \E ok \in BOOLEAN : RemoteHeaders(ok)
    \/ RemoteRejects
    \/ RemoteDeadline
    \/ \E outcome \in BodyOutcomes : RemoteBody(outcome)
    \/ CallReturns

\* the timer of a pending fetch fires and a settled call returns to its
\* caller; nothing obliges the endpoint to send headers or a body
SpecRemote ==
    /\ InitRemote
    /\ [][NextRemote]_vars
    /\ WF_vars(RemoteDeadline)
    /\ WF_vars(CallReturns)

\* C26: a remote approval call that has been started completes with a
\* verdict, whatever the endpoint does or fails to do while the headers or
\* the body are outstanding.
C26_RemoteCallCompletes ==
    (auth.pc \in {"remote", "body"}) ~> (auth.pc = "done")


(***************************************************************************)
(* core.ts: matchesPattern called on candidate texts and pattern lists     *)
(* (SpecMatcher)                                                           *)
(***************************************************************************)
\* matchesPattern(text, patterns); the result is kept in decision
CallMatchesPattern(text, patterns) ==
    /\ auth.pc = "idle"
    /\ auth' = [IdleAuth EXCEPT !.entry = "matches", !.tool = text,
                                !.args = JArr(patterns),
                                !.decision = IF matchesPattern(text, patterns)
                                             THEN "match" ELSE "noMatch",
                                !.pc = "done"]
    /\ UNCHANGED <<envVars, fileVars, callerVars, proxyVars>>

MatcherTexts ==
    {"", "x", "src", "src/y", "./src/y", "SRC/Y", "dist/x", "./dist/x", ".env",
     "a/b/c", "/etc/passwd", ".."}

MatcherPatterns ==
    {<<>>, <<"src/**">>, <<"**">>, <<"*">>, <<"./src/*">>, <<"x">>, <<".env">>,
     <<"*.env">>, <<"dist/**", "SRC/**">>}

InitMatcher ==
    /\ cfg = DEFAULT_CONFIG
    /\ nodeEnv = ""
    /\ hasKey = FALSE
    /\ isTTY = FALSE
    /\ auth = IdleAuth
    /\ ProxyIdle
    /\ NoFiles
    /\ CallersIdle

NextMatcher ==
    \/ \E text \in MatcherTexts, patterns \in MatcherPatterns :
           CallMatchesPattern(text, patterns)
    \/ CallReturns

SpecMatcher == InitMatcher /\ [][NextMatcher]_vars

\* C30: for every candidate text and every pattern list, the text with './'
\* put in front of it matches exactly when the text itself matches.
C30_DotSlashNeutral ==
    auth.entry = "matches" =>
        (matchesPattern("./" \o auth.tool, auth.args.v) <=> auth.decision = "match")


(***************************************************************************)
(* core.ts: the configuration cache under evaluations, changes of the      *)
(* files and resets (SpecCache)                                            *)
(***************************************************************************)
\* await evaluatePolicy(toolName, args) in a process whose cache may be
\* empty: its getConfig() fills the cache from the files as they are now
EvaluateWithCache(tool, args) ==
    /\ auth.pc = "idle"
    /\ cfg' = getConfig(cfg, projectFile, globalFile)
    /\ reads' = ReadsAfter(cfg, reads, projectFile, globalFile)
    /\ auth' = [IdleAuth EXCEPT !.entry = "evaluate", !.tool = tool, !.args = args,
                                !.decision =
                                    evaluatePolicy(getConfig(cfg, projectFile, globalFile),
                                                   nodeEnv, tool, args),
                                !.pc = "done"]
    /\ UNCHANGED <<nodeEnv, hasKey, isTTY, fileVars, proxyVars, callerVars>>

CacheProjectFiles == {AbsentFile, FileWith(StrictText), FileWith(ProjectText)}

CacheGlobalFiles == {AbsentFile, FileWith(GlobalText)}

\* somebody rewrites or removes <cwd>/node9.config.json
WriteProjectFile(file) ==
    /\ projectFile # file
    /\ projectFile' = file
    /\ UNCHANGED <<envVars, globalFile, auth, proxyVars, callerVars>>

\* somebody rewrites or removes ~/.node9/config.json
WriteGlobalFile(file) ==
    /\ globalFile # file
    /\ globalFile' = file
    /\ UNCHANGED <<envVars, projectFile, auth, proxyVars, callerVars>>

CacheTools == {"delete_user", "nuke_db", "list_users"}

InitCache ==
    /\ cfg = NullConfig
    /\ nodeEnv = ""
    /\ hasKey = FALSE
    /\ isTTY = FALSE
    /\ auth = IdleAuth
    /\ ProxyIdle
    /\ projectFile \in CacheProjectFiles
    /\ globalFile \in CacheGlobalFiles
    /\ reads = NoReads
    /\ CallersIdle

\* a reset is made between two calls, as the tests make it
NextCache ==
    \/ \E tool \in CacheTools : EvaluateWithCache(tool, NoArgs)
    \/ CallReturns
    \/ \E file \in CacheProjectFiles : WriteProjectFile(file)
    \/ \E file \in CacheGlobalFiles : WriteGlobalFile(file)
    \/ auth.pc = "idle" /\ ResetConfigCache

SpecCache == InitCache /\ [][NextCache]_vars

\* C29: the cache is empty until the first use and after a reset; since the
\* last reset the sources have been read at most once, the configuration in
\* use is the one resolved from the files as they were at that read,
\* whatever the files hold now, and every evaluation is decided under it.
C29_ConfigCache ==
    /\ reads.count <= 1
    /\ cfg = NullConfig <=> reads.count = 0
    /\ cfg # NullConfig => cfg = getConfig(NullConfig, reads.project, reads.global)
    /\ (auth.entry = "evaluate" /\ auth.pc = "done") =>
           /\ cfg # NullConfig
           /\ auth.decision = evaluatePolicy(cfg, nodeEnv, auth.tool, auth.args)

C29_Witness ==
    /\ auth.pc = "done"
    /\ auth.tool = "delete_user"
    /\ auth.decision = "allow"
    /\ reads.project = FileWith(ProjectText)
    /\ projectFile = FileWith(StrictText)
    /\ cfg # getConfig(NullConfig, projectFile, globalFile)

====
